---------------------------- MODULE Spec2Model ----------------------------
(***************************************************************************)
(* A model of visneb: the driver (main.py), the frame exporter and the     *)
(* image post-processor (utils.py), the style sanitizer and render-script  *)
(* synthesizer (visneb_vmd.py) and the energy-profile chart                *)
(* (visneb_chart.py).                                                      *)
(*                                                                         *)
(* Text is modelled as sequences of one-character strings, so that         *)
(* formatting, trimming, prefix tests and filename ordering are computed   *)
(* character by character as the code computes them.                       *)
(***************************************************************************)
EXTENDS Integers, Sequences, FiniteSets, TLC

(***************************************************************************)
(* Bounds of the model.                                                    *)
(***************************************************************************)
MaxTraj == 4
NumStructs == 2
MaxLines == 2
MaxPasses == 2
MaxFrames == 102
TileW == 1
TileH == 1
MaxTiles == 3
MaxIndex == 2

(***************************************************************************)
(* Program constants.                                                      *)
(***************************************************************************)
\* f"image_{i:03d}..." : minimum field width of the export index
ExportWidth == 3
\* [format "frame_%02d.tga" $i] : minimum field width of the render index
RenderWidth == 2

VARIABLES
    pc,         \* position of the running function
    err,        \* the exception that left the running function, or "none"
    \* ---- extractMEPImages
    traj,       \* the structures read(traj, ":") returns
    nimages,    \* args.nimages
    neb,        \* images[-nimages:]
    ex_i,       \* loop counter of enumerate(neb)
    poscars,    \* list of POSCAR file names
    xyzs,       \* list of XYZ file names
    imageFiles, \* scratch directory: exported structure files, name -> content
    \* ---- sanitizeStyleVMD
    disk,       \* the bytes of style.vmd on disk
    linesep,    \* os.linesep of the platform the program runs on
    san_k,      \* number of lines the read loop has consumed
    cleaned,    \* the list of kept lines
    san_w,      \* number of lines of cleaned that reached the disk
    pass,       \* how many times sanitizeStyleVMD has been started
    orig,       \* history: the bytes of style.vmd before the first pass
    after1,     \* history: the bytes of style.vmd after the first pass
    \* ---- createVMDRenderScript and the batch run of render.tcl in VMD
    script,     \* render.tcl: the text between the braces of "set files { }"
    vmd_files,  \* Tcl: the list $files
    vmd_pos,    \* Tcl: how many elements of $files "foreach" has taken
    ren_i,      \* Tcl: the counter i
    loadedMols, \* VMD: the molecules loaded, top last
    styled,     \* VMD: style.vmd has been sourced for the top molecule
    tgaFiles,   \* scratch directory: rendered frames, name -> image
    renderLog,  \* history: what each "render" command was given
    \* ---- tga2png and createPNGmontage
    tga_sorted, \* sorted(tmpdir.glob("frame_*.tga"))
    cv_k,       \* number of TGA files converted
    pngFiles,   \* scratch directory: converted frames and the montage, name -> image
    pngs,       \* list of PNG file names
    images,     \* createPNGmontage: the opened images
    max_h,      \* createPNGmontage: the largest height
    normalized, \* createPNGmontage: the height-normalized images
    combined,   \* createPNGmontage: the canvas
    mon_k,      \* createPNGmontage: position of the running loop
    mon_x,      \* createPNGmontage: x
    montage,    \* the montage file written, or NoImage
    \* ---- bandPlotChart
    listing,    \* tmpdir.iterdir(): the names in the order the filesystem yields them
    energyOf,   \* the energy the backend returns for each structure
    ch_k,       \* position of the running loop
    ch_files,   \* files: list of (index, name)
    indices,    \* indices
    energies,   \* energies
    energyCalls,\* history: the files the backend was evaluated on, in order
    chart,      \* the plotted samples, chart[k+1] at reaction coordinate k
    \* ---- main
    started,    \* history: the steps main has started, in order
    finished,   \* history: the steps that returned
    exits,      \* history: the exit status of each external command
    styleSaved, \* style.vmd exists in the scratch directory
    tmpdir,     \* the scratch directory exists
    artifacts   \* the output files in the current directory

renVars == <<script, vmd_files, vmd_pos, ren_i, loadedMols, styled, tgaFiles, renderLog>>
postVars == <<tga_sorted, cv_k, pngFiles, pngs, images, max_h, normalized,
              combined, mon_k, mon_x, montage>>
chartVars == <<listing, energyOf, ch_k, ch_files, indices, energies, energyCalls,
               chart>>
drvVars == <<started, finished, exits, styleSaved, tmpdir, artifacts>>
expVars == <<traj, nimages, neb, ex_i, poscars, xyzs, imageFiles>>
sanVars == <<disk, linesep, san_k, cleaned, san_w, pass, orig, after1>>
vars == <<pc, err, expVars, sanVars, renVars, postVars, chartVars, drvVars>>

(***************************************************************************)
(* Generic helpers.                                                        *)
(***************************************************************************)
SeqsUpTo(S, n) == UNION {[1..k -> S] : k \in 0..n}

Min(a, b) == IF a < b THEN a ELSE b
Max(a, b) == IF a > b THEN a ELSE b

DigitChar(d) ==
    CASE d = 0 -> "0" [] d = 1 -> "1" [] d = 2 -> "2" [] d = 3 -> "3"
      [] d = 4 -> "4" [] d = 5 -> "5" [] d = 6 -> "6" [] d = 7 -> "7"
      [] d = 8 -> "8" [] d = 9 -> "9"

\* decimal digits of a natural number, most significant first
RECURSIVE Digits(_)
Digits(n) == IF n < 10 THEN <<DigitChar(n)>>
             ELSE Digits(n \div 10) \o <<DigitChar(n % 10)>>

RECURSIVE Zeros(_)
Zeros(k) == IF k <= 0 THEN <<>> ELSE <<"0">> \o Zeros(k - 1)

\* "%0<w>d" / f"{n:0<w>d}" for n >= 0: the digits, left-padded with zeros
\* up to a MINIMUM width of w (wider numbers are not truncated)
ZeroPad(n, w) == Zeros(w - Len(Digits(n))) \o Digits(n)

(***************************************************************************)
(* The values a component's variables hold while it is not running.        *)
(***************************************************************************)
NoFiles == [f \in {} |-> 0]

ExpIdle ==
    /\ traj = <<>>
    /\ nimages = 0
    /\ neb = <<>>
    /\ ex_i = 0
    /\ poscars = <<>>
    /\ xyzs = <<>>
    /\ imageFiles = NoFiles

SanIdle ==
    /\ disk = <<>>
    /\ linesep = <<"\n">>
    /\ san_k = 0
    /\ cleaned = <<>>
    /\ san_w = 0
    /\ pass = 0
    /\ orig = <<>>
    /\ after1 = <<>>

NoImage == [w |-> 0, h |-> 0, mode |-> "none", px |-> <<>>]

RenIdle ==
    /\ script = <<>>
    /\ vmd_files = <<>>
    /\ vmd_pos = 0
    /\ ren_i = 0
    /\ loadedMols = <<>>
    /\ styled = FALSE
    /\ tgaFiles = NoFiles
    /\ renderLog = <<>>

PostIdle ==
    /\ tga_sorted = <<>>
    /\ cv_k = 0
    /\ pngFiles = NoFiles
    /\ pngs = <<>>
    /\ images = <<>>
    /\ max_h = 0
    /\ normalized = <<>>
    /\ combined = NoImage
    /\ mon_k = 0
    /\ mon_x = 0
    /\ montage = NoImage

ChartIdle ==
    /\ listing = <<>>
    /\ energyOf = <<>>
    /\ ch_k = 0
    /\ ch_files = <<>>
    /\ indices = <<>>
    /\ energies = <<>>
    /\ energyCalls = <<>>
    /\ chart = <<>>

DrvIdle ==
    /\ started = <<>>
    /\ finished = <<>>
    /\ exits = <<>>
    /\ styleSaved = FALSE
    /\ tmpdir = FALSE
    /\ artifacts = {}

(***************************************************************************)
(* utils.py: extractMEPImages                                              *)
(***************************************************************************)
Structures == 1..NumStructs

\* Python's s[start:] for any integer start
PySliceFrom(s, start) ==
    LET n == Len(s)
        lo == IF start < 0 THEN Max(n + start, 0) ELSE Min(start, n)
    IN  SubSeq(s, lo + 1, n)

\* a wrong selection: the first n images instead of the last n
LastImagesMutant(imgs, n) == SubSeq(imgs, 1, Min(Max(n, 0), Len(imgs)))

\* neb = images[-nimages:]
LastImages(imgs, n) == PySliceFrom(imgs, 0 - n)

ImagePrefix == <<"i", "m", "a", "g", "e", "_">>
ExtPOSCAR == <<".", "P", "O", "S", "C", "A", "R">>
ExtXYZ == <<".", "x", "y", "z">>

\* f"image_{i:03d}.POSCAR" and f"image_{i:03d}.xyz"
PoscarName(i) == ImagePrefix \o ZeroPad(i, ExportWidth) \o ExtPOSCAR
XyzName(i) == ImagePrefix \o ZeroPad(i, ExportWidth) \o ExtXYZ

\* write(path, atoms, format=...): the file now holds the structure in that format
WriteFile(files, name, content) ==
    [f \in (DOMAIN files) \cup {name} |-> IF f = name THEN content ELSE files[f]]

ExtractInit ==
    /\ pc = "extract"
    /\ err = "none"
    /\ traj \in SeqsUpTo(Structures, MaxTraj)
    /\ nimages \in (0 - 1)..(MaxTraj + 1)
    /\ neb = <<>>
    /\ ex_i = 0
    /\ poscars = <<>>
    /\ xyzs = <<>>
    /\ imageFiles = NoFiles
    /\ SanIdle
    /\ RenIdle
    /\ PostIdle
    /\ ChartIdle
    /\ DrvIdle

\* lines 24-28: read the trajectory, slice it, start the loop
ExtractBegin ==
    /\ pc = "extract"
    /\ neb' = LastImages(traj, nimages)
    /\ ex_i' = 0
    /\ poscars' = <<>>
    /\ xyzs' = <<>>
    /\ pc' = "extract_loop"
    /\ UNCHANGED <<err, traj, nimages, imageFiles, sanVars, renVars, postVars,
                   chartVars, drvVars>>

\* lines 29-35: one iteration of "for i, atoms in enumerate(neb)"
ExtractIter ==
    /\ pc = "extract_loop"
    /\ ex_i < Len(neb)
    /\ LET atoms == neb[ex_i + 1]
           path_POSCAR == PoscarName(ex_i)
           path_XYZ == XyzName(ex_i)
       IN  /\ imageFiles' = WriteFile(
                   WriteFile(imageFiles, path_POSCAR,
                             [format |-> "vasp", atoms |-> atoms]),
                   path_XYZ, [format |-> "xyz", atoms |-> atoms])
           /\ poscars' = Append(poscars, path_POSCAR)
           /\ xyzs' = Append(xyzs, path_XYZ)
    /\ ex_i' = ex_i + 1
    /\ UNCHANGED <<pc, err, traj, nimages, neb, sanVars, renVars, postVars,
                   chartVars, drvVars>>

\* line 37: return poscars, xyzs
ExtractReturn ==
    /\ pc = "extract_loop"
    /\ ex_i = Len(neb)
    /\ pc' = "extract_done"
    /\ UNCHANGED <<err, expVars, sanVars, renVars, postVars,
                   chartVars, drvVars>>

ExtractNext == ExtractBegin \/ ExtractIter \/ ExtractReturn

SpecExtract == ExtractInit /\ [][ExtractNext]_vars

(***************************************************************************)
(* Claims about extractMEPImages                                           *)
(***************************************************************************)
\* the name "image_<k as three digits>" \o ext, written out digit by digit
ThreeDigitName(k, ext) ==
    ImagePrefix
      \o <<DigitChar(k \div 100), DigitChar((k \div 10) % 10), DigitChar(k % 10)>>
      \o ext

\* C1: when extractMEPImages has returned for 1 <= N <= L, exactly the 2N
\* files image_<k>.POSCAR and image_<k>.xyz (k = 0..N-1, three digits) exist,
\* the k-th pair holds the structure at trajectory position L-N+k, and the
\* two returned lists name them in ascending k.
C1_ExportsLastN ==
    (pc = "extract_done" /\ nimages >= 1 /\ nimages <= Len(traj)) =>
        LET L == Len(traj)
            N == nimages
        IN  /\ Len(poscars) = N
            /\ Len(xyzs) = N
            /\ Cardinality(DOMAIN imageFiles) = 2 * N
            /\ DOMAIN imageFiles =
                   {ThreeDigitName(k, ExtPOSCAR) : k \in 0..(N - 1)}
                     \cup {ThreeDigitName(k, ExtXYZ) : k \in 0..(N - 1)}
            /\ \A k \in 0..(N - 1) :
                   /\ poscars[k + 1] = ThreeDigitName(k, ExtPOSCAR)
                   /\ xyzs[k + 1] = ThreeDigitName(k, ExtXYZ)
                   /\ imageFiles[poscars[k + 1]] =
                          [format |-> "vasp", atoms |-> traj[L - N + k + 1]]
                   /\ imageFiles[xyzs[k + 1]] =
                          [format |-> "xyz", atoms |-> traj[L - N + k + 1]]

\* a run that exported the last 2 of at least 3 frames, two distinct structures
C1_Witness ==
    /\ pc = "extract_done"
    /\ nimages = 2
    /\ Len(traj) >= 3
    /\ Len(poscars) = 2
    /\ traj[Len(traj)] # traj[Len(traj) - 1]
    /\ traj[1] # traj[Len(traj) - 1]

\* C2: when N exceeds the number of frames, extractMEPImages fails with
\* InvalidRequest and returns no frame list.
C2_TooManyFramesFails ==
    (pc = "extract_done" /\ nimages > Len(traj)) =>
        (err = "InvalidRequest" /\ poscars = <<>> /\ xyzs = <<>>)

(***************************************************************************)
(* visneb_vmd.py: sanitizeStyleVMD                                         *)
(***************************************************************************)
LF == "\n"
CR == "\r"

\* the characters str.strip() removes (those the model's files can hold)
Whitespace == {" ", "\t", "\n", "\r", "\f"}

RECURSIVE Flatten(_)
Flatten(ss) == IF ss = <<>> THEN <<>> ELSE Head(ss) \o Flatten(Tail(ss))

\* open(path) reads in text mode with newline=None: "\r\n" and a lone "\r"
\* both arrive as "\n"
RECURSIVE UniversalNewlines(_)
UniversalNewlines(b) ==
    IF b = <<>> THEN <<>>
    ELSE IF Head(b) = CR
         THEN IF Len(b) >= 2 /\ b[2] = LF
              THEN <<LF>> \o UniversalNewlines(SubSeq(b, 3, Len(b)))
              ELSE <<LF>> \o UniversalNewlines(Tail(b))
         ELSE <<Head(b)>> \o UniversalNewlines(Tail(b))

\* a text file written with newline=None: every "\n" leaves as os.linesep
RECURSIVE WriteNewlines(_, _)
WriteNewlines(t, sep) ==
    IF t = <<>> THEN <<>>
    ELSE (IF Head(t) = LF THEN sep ELSE <<Head(t)>>)
             \o WriteNewlines(Tail(t), sep)

\* index of the first "\n" of t, or 0
RECURSIVE FirstLF(_, _)
FirstLF(t, k) ==
    IF k > Len(t) THEN 0 ELSE IF t[k] = LF THEN k ELSE FirstLF(t, k + 1)

\* "for line in f": the text cut after each "\n", the "\n" kept
RECURSIVE TextLines(_)
TextLines(t) ==
    IF t = <<>> THEN <<>>
    ELSE LET k == FirstLF(t, 1)
         IN  IF k = 0 THEN <<t>>
             ELSE <<SubSeq(t, 1, k)>> \o TextLines(SubSeq(t, k + 1, Len(t)))

\* the lines the read loop iterates over
ReadLines(b) == TextLines(UniversalNewlines(b))

RECURSIVE LStrip(_)
LStrip(s) == IF s # <<>> /\ Head(s) \in Whitespace THEN LStrip(Tail(s)) ELSE s

RECURSIVE RStrip(_)
RStrip(s) == IF s # <<>> /\ s[Len(s)] \in Whitespace
             THEN RStrip(SubSeq(s, 1, Len(s) - 1)) ELSE s

\* line.strip()
Strip(s) == RStrip(LStrip(s))

\* s.startswith(p)
StartsWith(s, p) == Len(s) >= Len(p) /\ SubSeq(s, 1, Len(p)) = p

MolNew == <<"m", "o", "l", " ", "n", "e", "w">>
MolDelrep == <<"m", "o", "l", " ", "d", "e", "l", "r", "e", "p">>

banned_prefixes == {MolNew, MolDelrep}

\* any(stripped.startswith(p) for p in banned_prefixes)
IsBanned(line) == \E p \in banned_prefixes : StartsWith(Strip(line), p)

\* ---- the style files the model starts from
LineBodies ==
    { MolNew \o <<" ", "x">>,                 \* mol new x
      <<" ", "\t">> \o MolDelrep \o <<" ">>,  \* indented mol delrep, trailing blank
      MolNew \o <<"s">>,                      \* mol news
      <<"m", "o", "l", " ", " ", "n", "e", "w">>,  \* mol  new (two blanks)
      <<"x", " ">> \o MolNew,                 \* x mol new
      <<" ", "x", " ">>,                      \* indented text, trailing blank
      <<"m", "o", "l">>,                      \* mol
      <<>> }                                  \* empty line

Terminators == {<<LF>>, <<CR, LF>>, <<CR>>, <<>>}

Lines == {b \o t : b \in LineBodies, t \in Terminators}

StyleFiles == {Flatten(ls) : ls \in SeqsUpTo(Lines, MaxLines)}

SanitizeInit ==
    /\ pc = "san_call"
    /\ err = "none"
    /\ ExpIdle
    /\ RenIdle
    /\ PostIdle
    /\ ChartIdle
    /\ DrvIdle
    /\ disk \in StyleFiles
    /\ orig = disk
    /\ linesep \in {<<LF>>, <<CR, LF>>}
    /\ san_k = 0
    /\ cleaned = <<>>
    /\ san_w = 0
    /\ pass = 0
    /\ after1 = <<>>

\* sanitizeStyleVMD(style) is called; lines 43-45: the file is opened for reading
SanOpenRead ==
    /\ pc = "san_call"
    /\ pass < MaxPasses
    /\ pass' = pass + 1
    /\ san_k' = 0
    /\ cleaned' = <<>>
    /\ san_w' = 0
    /\ pc' = "san_read"
    /\ UNCHANGED <<err, expVars, disk, linesep, orig, after1, renVars, postVars,
                   chartVars, drvVars>>

\* lines 46-52: one iteration of "for line in f"
SanReadLine ==
    /\ pc = "san_read"
    /\ san_k < Len(ReadLines(disk))
    /\ LET line == ReadLines(disk)[san_k + 1]
       IN  cleaned' = IF IsBanned(line) THEN cleaned ELSE Append(cleaned, line)
    /\ san_k' = san_k + 1
    /\ UNCHANGED <<pc, err, expVars, disk, linesep, san_w, pass, orig, after1, renVars, postVars,
                   chartVars, drvVars>>

\* line 53: open(style_path, "w") truncates the file
SanOpenWrite ==
    /\ pc = "san_read"
    /\ san_k = Len(ReadLines(disk))
    /\ disk' = <<>>
    /\ san_w' = 0
    /\ pc' = "san_write"
    /\ UNCHANGED <<err, expVars, linesep, san_k, cleaned, pass, orig, after1, renVars, postVars,
                   chartVars, drvVars>>

\* line 54: f.writelines(cleaned); one more line of it reaches the disk
SanWriteLine ==
    /\ pc = "san_write"
    /\ san_w < Len(cleaned)
    /\ disk' = disk \o WriteNewlines(cleaned[san_w + 1], linesep)
    /\ san_w' = san_w + 1
    /\ UNCHANGED <<pc, err, expVars, linesep, san_k, cleaned, pass, orig, after1, renVars, postVars,
                   chartVars, drvVars>>

\* end of the "with" block: the file is closed and the function returns
SanClose ==
    /\ pc = "san_write"
    /\ san_w = Len(cleaned)
    /\ pc' = "san_done"
    /\ after1' = IF pass = 1 THEN disk ELSE after1
    /\ UNCHANGED <<err, expVars, disk, linesep, san_k, cleaned, san_w, pass, orig, renVars, postVars,
                   chartVars, drvVars>>

\* an I/O failure (OSError) while reading, opening for writing, writing or
\* closing: the exception leaves the function, the disk stays as it is
SanIOFailure ==
    /\ pc \in {"san_read", "san_write"}
    /\ err' = "OSError"
    /\ pc' = "san_failed"
    /\ UNCHANGED <<expVars, sanVars, renVars, postVars,
                   chartVars, drvVars>>

\* the sanitizer is applied once more to the file it left
SanAgain ==
    /\ pc = "san_done"
    /\ pass < MaxPasses
    /\ pc' = "san_call"
    /\ UNCHANGED <<err, expVars, sanVars, renVars, postVars,
                   chartVars, drvVars>>

SanitizeNext ==
    \/ SanOpenRead
    \/ SanReadLine
    \/ SanOpenWrite
    \/ SanWriteLine
    \/ SanClose
    \/ SanIOFailure
    \/ SanAgain

SpecSanitize == SanitizeInit /\ [][SanitizeNext]_vars

(***************************************************************************)
(* Claims about sanitizeStyleVMD                                           *)
(***************************************************************************)
\* the lines of a file with their original bytes: the file cut after each
\* line end ("\r\n", "\n" or a lone "\r"), nothing translated
RECURSIVE RawLinesFrom(_, _)
RawLinesFrom(b, acc) ==
    IF b = <<>> THEN (IF acc = <<>> THEN <<>> ELSE <<acc>>)
    ELSE IF Head(b) = CR /\ Len(b) >= 2 /\ b[2] = LF
         THEN <<acc \o <<CR, LF>>>> \o RawLinesFrom(SubSeq(b, 3, Len(b)), <<>>)
    ELSE IF Head(b) \in {CR, LF}
         THEN <<acc \o <<Head(b)>>>> \o RawLinesFrom(Tail(b), <<>>)
    ELSE RawLinesFrom(Tail(b), acc \o <<Head(b)>>)

RawLines(b) == RawLinesFrom(b, <<>>)

\* the whitespace-trimmed text of the line starts with "mol new" or "mol delrep"
TrimmedStartsBanned(l) ==
    LET first == CHOOSE k \in 1..(Len(l) + 1) :
                     /\ \A j \in 1..(k - 1) : l[j] \in Whitespace
                     /\ (k <= Len(l) => l[k] \notin Whitespace)
    IN  \E p \in {MolNew, MolDelrep} :
            /\ first + Len(p) - 1 <= Len(l)
            /\ \A j \in 1..Len(p) : l[first + j - 1] = p[j]

KeptRaw(b) == Flatten(SelectSeq(RawLines(b), LAMBDA l : ~TrimmedStartsBanned(l)))

\* C3: after sanitizeStyleVMD the file holds exactly the input lines whose
\* trimmed text starts with no banned prefix, in order, with their original
\* bytes.
C3_KeepsExactlyUnbannedLines ==
    (pc = "san_done" /\ pass = 1) => disk = KeptRaw(orig)

\* C4: applying sanitizeStyleVMD twice leaves the file the first application
\* left, and applying it to a file with no banned line leaves the file
\* byte-identical to the input.
C4_IdempotentAndNoOp ==
    /\ (pc = "san_done" /\ pass = 2) => disk = after1
    /\ (pc = "san_done" /\ pass = 1
          /\ \A k \in DOMAIN RawLines(orig) : ~TrimmedStartsBanned(RawLines(orig)[k]))
         => disk = orig

\* what a run without failure leaves on disk
Sanitized(b, sep) ==
    WriteNewlines(
        Flatten(SelectSeq(ReadLines(b), LAMBDA l : ~IsBanned(l))), sep)

\* C5: after an I/O failure in sanitizeStyleVMD the file holds either its
\* complete original contents or the complete sanitized contents.
C5_AtomicOnIOFailure ==
    (pc = "san_failed" /\ pass = 1) =>
        (disk = orig \/ disk = Sanitized(orig, linesep))

\* what does hold of the code: the first half of C4, and C3 and the second
\* half of C4 up to the translation of line ends
SanitizeTwiceSameAsOnce ==
    (pc = "san_done" /\ pass = 2) => disk = after1

SanitizeKeepsUnbannedText ==
    (pc = "san_done" /\ pass = 1) =>
        UniversalNewlines(disk) = UniversalNewlines(KeptRaw(orig))

(***************************************************************************)
(* visneb_vmd.py: createVMDRenderScript, and VMD running render.tcl        *)
(***************************************************************************)
FramePrefix == <<"f", "r", "a", "m", "e", "_">>
ExtTGA == <<".", "t", "g", "a">>
ExtPNG == <<".", "p", "n", "g">>

TclBlank == {" ", "\t", "\n"}

\* index of the first blank character of t at or after k (Len(t)+1: none)
RECURSIVE WordEnd(_, _)
WordEnd(t, k) ==
    IF k <= Len(t) /\ t[k] \notin TclBlank THEN WordEnd(t, k + 1) ELSE k

\* the members of a set of numbers within lo..hi, ascending
RECURSIVE Ascending(_, _, _)
Ascending(S, lo, hi) ==
    IF lo > hi THEN <<>>
    ELSE IF lo = hi THEN (IF lo \in S THEN <<lo>> ELSE <<>>)
    ELSE LET mid == (lo + hi) \div 2
         IN  Ascending(S, lo, mid) \o Ascending(S, mid + 1, hi)

\* the words of a Tcl list: maximal runs of non-blank characters, in order
TclWords(t) ==
    LET starts == {k \in 1..Len(t) :
                      /\ t[k] \notin TclBlank
                      /\ (k = 1 \/ t[k - 1] \in TclBlank)}
        at == Ascending(starts, 1, Len(t))
    IN  [j \in 1..Len(at) |-> SubSeq(t, at[j], WordEnd(t, at[j]) - 1)]

\* f.write(f"    {file}\n") for each file fs[lo..hi]
RECURSIVE FilesLiteralRange(_, _, _)
FilesLiteralRange(fs, lo, hi) ==
    IF lo > hi THEN <<>>
    ELSE IF lo = hi THEN <<" ", " ", " ", " ">> \o fs[lo] \o <<"\n">>
    ELSE LET mid == (lo + hi) \div 2
         IN  FilesLiteralRange(fs, lo, mid) \o FilesLiteralRange(fs, mid + 1, hi)

FilesLiteral(fs) == FilesLiteralRange(fs, 1, Len(fs))

\* a wrong script: the counter formatted from the position counted from 1
FrameNameMutant(i) == FramePrefix \o ZeroPad(i + 1, RenderWidth) \o ExtTGA

\* [format "frame_%02d.tga" $i]
FrameName(i) == FramePrefix \o ZeroPad(i, RenderWidth) \o ExtTGA

\* the image TachyonInternal writes for the molecule file src
Rendering(src, w, h) ==
    [w |-> w, h |-> h, mode |-> "RGB",
     px |-> [p \in (0..(w - 1)) \X (0..(h - 1)) |-> <<src, p[1], p[2]>>]]

\* the exported files of a run that selected n frames
ExportedFiles(n) ==
    [f \in {PoscarName(k) : k \in 0..(n - 1)} \cup {XyzName(k) : k \in 0..(n - 1)}
        |-> [format |-> IF f[Len(f)] = "R" THEN "vasp" ELSE "xyz", atoms |-> 1]]

RenderInit ==
    /\ pc = "mkscript"
    /\ err = "none"
    /\ \E n \in 1..MaxFrames :
          /\ traj = [k \in 1..n |-> 1]
          /\ nimages = n
          /\ neb = traj
          /\ ex_i = n
          /\ poscars = [k \in 1..n |-> PoscarName(k - 1)]
          /\ xyzs \in { [k \in 1..n |-> XyzName(k - 1)],
                        [k \in 1..n |-> XyzName(n - k)] }
          /\ imageFiles = ExportedFiles(n)
    /\ SanIdle
    /\ RenIdle
    /\ PostIdle
    /\ ChartIdle
    /\ DrvIdle

\* createVMDRenderScript(tmpdir, xyzs): render.tcl is written
CreateVMDRenderScript ==
    /\ pc = "mkscript"
    /\ script' = FilesLiteral(xyzs)
    /\ pc' = "vmd_start"
    /\ UNCHANGED <<err, expVars, sanVars, postVars, vmd_files, vmd_pos, ren_i,
                   loadedMols, styled, tgaFiles, renderLog,
                   chartVars, drvVars>>

\* render.tcl: "set files { ... }" and "set i 0"
VmdSetFiles ==
    /\ pc = "vmd_start"
    /\ vmd_files' = TclWords(script)
    /\ vmd_pos' = 0
    /\ ren_i' = 0
    /\ pc' = "vmd_loop"
    /\ UNCHANGED <<err, expVars, sanVars, postVars, script, loadedMols, styled,
                   tgaFiles, renderLog,
                   chartVars, drvVars>>

\* render.tcl: "foreach f $files" takes the next file; "mol new $f type xyz"
VmdMolNew ==
    /\ pc = "vmd_loop"
    /\ vmd_pos < Len(vmd_files)
    /\ loadedMols' = Append(loadedMols, vmd_files[vmd_pos + 1])
    /\ styled' = FALSE
    /\ vmd_pos' = vmd_pos + 1
    /\ pc' = "vmd_loaded"
    /\ UNCHANGED <<err, expVars, sanVars, postVars, script, vmd_files, ren_i,
                   tgaFiles, renderLog,
                   chartVars, drvVars>>

\* render.tcl: "source style.vmd"
VmdSourceStyle ==
    /\ pc = "vmd_loaded"
    /\ styled' = TRUE
    /\ pc' = "vmd_styled"
    /\ UNCHANGED <<err, expVars, sanVars, postVars, script, vmd_files, vmd_pos,
                   ren_i, loadedMols, tgaFiles, renderLog,
                   chartVars, drvVars>>

\* render.tcl: set out [format "frame_%02d.tga" $i]; render TachyonInternal $out
VmdRender ==
    /\ pc = "vmd_styled"
    /\ LET out == FrameName(ren_i)
           top == loadedMols[Len(loadedMols)]
       IN  /\ tgaFiles' = WriteFile(tgaFiles, out, Rendering(top, TileW, TileH))
           /\ renderLog' = Append(renderLog,
                                  [file |-> top, out |-> out, styled |-> styled,
                                   loaded |-> Len(loadedMols)])
    /\ pc' = "vmd_rendered"
    /\ UNCHANGED <<err, expVars, sanVars, postVars, script, vmd_files, vmd_pos,
                   ren_i, loadedMols, styled,
                   chartVars, drvVars>>

\* render.tcl: "mol delete top" and "incr i"
VmdCleanup ==
    /\ pc = "vmd_rendered"
    /\ loadedMols' = SubSeq(loadedMols, 1, Len(loadedMols) - 1)
    /\ ren_i' = ren_i + 1
    /\ pc' = "vmd_loop"
    /\ UNCHANGED <<err, expVars, sanVars, postVars, script, vmd_files, vmd_pos,
                   styled, tgaFiles, renderLog,
                   chartVars, drvVars>>

\* render.tcl: "quit" after the loop
VmdQuit ==
    /\ pc = "vmd_loop"
    /\ vmd_pos = Len(vmd_files)
    /\ pc' = "vmd_done"
    /\ UNCHANGED <<err, expVars, sanVars, postVars, renVars,
                   chartVars, drvVars>>

ScriptNext ==
    \/ CreateVMDRenderScript
    \/ VmdSetFiles
    \/ VmdMolNew
    \/ VmdSourceStyle
    \/ VmdRender
    \/ VmdCleanup
    \/ VmdQuit

\* steps 4 and 5 of main: the script is written and VMD runs it
SpecScript == RenderInit /\ [][ScriptNext]_vars

(***************************************************************************)
(* utils.py: tga2png                                                       *)
(***************************************************************************)
\* the code point of a character of a file name
Ord(c) ==
    CASE c = "-" -> 45 [] c = "." -> 46
      [] c = "0" -> 48 [] c = "1" -> 49 [] c = "2" -> 50 [] c = "3" -> 51
      [] c = "4" -> 52 [] c = "5" -> 53 [] c = "6" -> 54 [] c = "7" -> 55
      [] c = "8" -> 56 [] c = "9" -> 57
      [] c = "A" -> 65 [] c = "C" -> 67 [] c = "O" -> 79 [] c = "P" -> 80
      [] c = "R" -> 82 [] c = "S" -> 83 [] c = "_" -> 95
      [] c = "a" -> 97 [] c = "c" -> 99 [] c = "d" -> 100 [] c = "e" -> 101
      [] c = "f" -> 102 [] c = "g" -> 103 [] c = "i" -> 105 [] c = "l" -> 108
      [] c = "m" -> 109 [] c = "n" -> 110 [] c = "p" -> 112 [] c = "r" -> 114
      [] c = "s" -> 115 [] c = "t" -> 116 [] c = "v" -> 118 [] c = "x" -> 120
      [] c = "y" -> 121 [] c = "z" -> 122

\* a < b for two strings: the first differing character decides, a proper
\* prefix comes first
RECURSIVE StrLessFrom(_, _, _)
StrLessFrom(a, b, k) ==
    IF k > Len(b) THEN FALSE
    ELSE IF k > Len(a) THEN TRUE
    ELSE IF a[k] = b[k] THEN StrLessFrom(a, b, k + 1)
    ELSE Ord(a[k]) < Ord(b[k])

StrLess(a, b) == StrLessFrom(a, b, 1)

\* sorted(S) for a set of strings: the lesser half of S, sorted, then the rest
RECURSIVE Sorted(_)
Sorted(S) ==
    IF S = {} THEN <<>>
    ELSE IF Cardinality(S) = 1 THEN <<CHOOSE x \in S : TRUE>>
    ELSE LET half  == Cardinality(S) \div 2
             lower == {x \in S : Cardinality({y \in S : StrLess(y, x)}) < half}
         IN  Sorted(lower) \o Sorted(S \ lower)

EndsWith(s, e) ==
    Len(s) >= Len(e) /\ SubSeq(s, Len(s) - Len(e) + 1, Len(s)) = e

StyleVmd == <<"s", "t", "y", "l", "e", ".", "v", "m", "d">>
RenderTcl == <<"r", "e", "n", "d", "e", "r", ".", "t", "c", "l">>

\* the names in the scratch directory
DirNames ==
    (DOMAIN imageFiles) \cup (DOMAIN tgaFiles) \cup (DOMAIN pngFiles)
        \cup {StyleVmd, RenderTcl}

\* tmpdir.glob("frame_*.tga")
GlobFrameTga(names) ==
    {n \in names : /\ StartsWith(n, FramePrefix)
                   /\ EndsWith(n, ExtTGA)
                   /\ Len(n) >= Len(FramePrefix) + Len(ExtTGA)}

\* index of the last "." of a name (0: none)
RECURSIVE LastDot(_, _)
LastDot(n, k) == IF k = 0 THEN 0 ELSE IF n[k] = "." THEN k ELSE LastDot(n, k - 1)

\* Path.with_suffix(ext)
WithSuffix(n, ext) ==
    LET d == LastDot(n, Len(n))
    IN  (IF d <= 1 THEN n ELSE SubSeq(n, 1, d - 1)) \o ext

\* sorted(tmpdir.glob("frame_*.tga"))
TgaListing(names) == Sorted(GlobFrameTga(names))

\* line 74-77: the listing is taken, pngs = []
Tga2PngBegin ==
    /\ pc = "vmd_done"
    /\ tga_sorted' = TgaListing(DirNames)
    /\ cv_k' = 0
    /\ pngs' = <<>>
    /\ pc' = "convert"
    /\ UNCHANGED <<err, expVars, sanVars, renVars, pngFiles, images, max_h,
                   normalized, combined, mon_k, mon_x, montage,
                   chartVars, drvVars>>

\* lines 77-89: one iteration of the loop over the listing
Tga2PngIter ==
    /\ pc = "convert"
    /\ cv_k < Len(tga_sorted)
    /\ LET tga == tga_sorted[cv_k + 1]
           png == WithSuffix(tga, ExtPNG)
           im == tgaFiles[tga]
           out == IF im.mode \notin {"RGB", "RGBA"}
                  THEN [im EXCEPT !.mode = "RGBA"]
                  ELSE im
       IN  /\ pngFiles' = WriteFile(pngFiles, png, out)
           /\ pngs' = Append(pngs, png)
    /\ cv_k' = cv_k + 1
    /\ UNCHANGED <<pc, err, expVars, sanVars, renVars, tga_sorted, images, max_h,
                   normalized, combined, mon_k, mon_x, montage,
                   chartVars, drvVars>>

\* line 91: return pngs
Tga2PngReturn ==
    /\ pc = "convert"
    /\ cv_k = Len(tga_sorted)
    /\ pc' = "converted"
    /\ UNCHANGED <<err, expVars, sanVars, renVars, postVars,
                   chartVars, drvVars>>

(***************************************************************************)
(* utils.py: createPNGmontage                                              *)
(***************************************************************************)
\* (255,255,255,0)
Transparent == <<<<>>, 0, 0>>

\* Image.new("RGBA", (w, h), (255,255,255,0))
NewImage(w, h) ==
    [w |-> w, h |-> h, mode |-> "RGBA",
     px |-> [p \in (0..(w - 1)) \X (0..(h - 1)) |-> Transparent]]

\* canvas.paste(img, (x0, y0)): the box of img replaces the canvas's pixels
Paste(canvas, img, x0, y0) ==
    [canvas EXCEPT !.px =
        [p \in DOMAIN canvas.px |->
            IF /\ p[1] >= x0 /\ p[1] < x0 + img.w
               /\ p[2] >= y0 /\ p[2] < y0 + img.h
            THEN img.px[<<p[1] - x0, p[2] - y0>>]
            ELSE canvas.px[p]]]

\* a wrong centering: the padding rounded up
TopPaddingMutant(mh, h) == (mh - h + 1) \div 2

\* (max_h - img.height)//2
TopPadding(mh, h) == (mh - h) \div 2

\* max(img.height for img in imgs[lo..hi])
RECURSIVE MaxHeightRange(_, _, _)
MaxHeightRange(imgs, lo, hi) ==
    IF lo = hi THEN imgs[lo].h
    ELSE LET mid == (lo + hi) \div 2
         IN  Max(MaxHeightRange(imgs, lo, mid), MaxHeightRange(imgs, mid + 1, hi))

MaxHeight(imgs) == MaxHeightRange(imgs, 1, Len(imgs))

\* sum(img.width for img in imgs[lo..hi])
RECURSIVE SumWidthRange(_, _, _)
SumWidthRange(imgs, lo, hi) ==
    IF lo > hi THEN 0
    ELSE IF lo = hi THEN imgs[lo].w
    ELSE LET mid == (lo + hi) \div 2
         IN  SumWidthRange(imgs, lo, mid) + SumWidthRange(imgs, mid + 1, hi)

SumWidth(imgs) == SumWidthRange(imgs, 1, Len(imgs))

\* lines 108-111: the images are opened and converted, max() of no image raises
MontageNoImages ==
    /\ pc = "converted"
    /\ pngs = <<>>
    /\ err' = "ValueError"
    /\ pc' = "failed"
    /\ UNCHANGED <<expVars, sanVars, renVars, postVars,
                   chartVars, drvVars>>

\* lines 108-113: the images are opened and converted, max_h is computed
MontageOpen ==
    /\ pc = "converted"
    /\ pngs # <<>>
    /\ images' = [k \in 1..Len(pngs) |-> [pngFiles[pngs[k]] EXCEPT !.mode = "RGBA"]]
    /\ max_h' = MaxHeight(images')
    /\ normalized' = <<>>
    /\ mon_k' = 0
    /\ pc' = "mon_norm"
    /\ UNCHANGED <<err, expVars, sanVars, renVars, tga_sorted, cv_k, pngFiles,
                   pngs, combined, mon_x, montage,
                   chartVars, drvVars>>

\* lines 114-120: one iteration of "for img in images"
MontageNormalize ==
    /\ pc = "mon_norm"
    /\ mon_k < Len(images)
    /\ LET img == images[mon_k + 1]
       IN  normalized' =
               IF img.h # max_h
               THEN Append(normalized,
                           Paste(NewImage(img.w, max_h), img, 0,
                                 TopPadding(max_h, img.h)))
               ELSE Append(normalized, img)
    /\ mon_k' = mon_k + 1
    /\ UNCHANGED <<pc, err, expVars, sanVars, renVars, tga_sorted, cv_k, pngFiles,
                   pngs, images, max_h, combined, mon_x, montage,
                   chartVars, drvVars>>

\* lines 122-126: total_w, the transparent canvas, x = 0
MontageCanvas ==
    /\ pc = "mon_norm"
    /\ mon_k = Len(images)
    /\ combined' = NewImage(SumWidth(normalized), max_h)
    /\ mon_x' = 0
    /\ mon_k' = 0
    /\ pc' = "mon_paste"
    /\ UNCHANGED <<err, expVars, sanVars, renVars, tga_sorted, cv_k, pngFiles,
                   pngs, images, max_h, normalized, montage,
                   chartVars, drvVars>>

\* lines 127-129: one iteration of "for img in normalized"
MontagePaste ==
    /\ pc = "mon_paste"
    /\ mon_k < Len(normalized)
    /\ LET img == normalized[mon_k + 1]
       IN  /\ combined' = Paste(combined, img, mon_x, 0)
           /\ mon_x' = mon_x + img.w
    /\ mon_k' = mon_k + 1
    /\ UNCHANGED <<pc, err, expVars, sanVars, renVars, tga_sorted, cv_k, pngFiles,
                   pngs, images, max_h, normalized, montage,
                   chartVars, drvVars>>

\* line 131: combined.save(Path(tmpdir)/output)
MontageSave ==
    /\ pc = "mon_paste"
    /\ mon_k = Len(normalized)
    /\ montage' = combined
    /\ pc' = "montage_done"
    /\ UNCHANGED <<err, expVars, sanVars, renVars, tga_sorted, cv_k, pngFiles,
                   pngs, images, max_h, normalized, combined, mon_k, mon_x,
                   chartVars, drvVars>>

RenderNext ==
    \/ ScriptNext
    \/ Tga2PngBegin
    \/ Tga2PngIter
    \/ Tga2PngReturn
    \/ MontageOpen
    \/ MontageNormalize
    \/ MontageCanvas
    \/ MontagePaste
    \/ MontageSave

\* steps 4-7 of main for every frame count
SpecRender == RenderInit /\ [][RenderNext]_vars

\* ---- the post-processor on frames of any size and colour mode
Widths == {1, 2}
Heights == {1, 2, 4}
Modes == {"RGB", "RGBA", "P"}

\* the scratch directory after VMD has rendered n frames
MontageInit ==
    /\ pc = "vmd_done"
    /\ err = "none"
    /\ \E n \in 0..MaxTiles :
          /\ traj = [k \in 1..n |-> 1]
          /\ nimages = n
          /\ neb = traj
          /\ ex_i = n
          /\ poscars = [k \in 1..n |-> PoscarName(k - 1)]
          /\ xyzs = [k \in 1..n |-> XyzName(k - 1)]
          /\ imageFiles = ExportedFiles(n)
          /\ script = FilesLiteral(xyzs)
          /\ vmd_files = xyzs
          /\ vmd_pos = n
          /\ ren_i = n
          /\ loadedMols = <<>>
          /\ styled = (n > 0)
          /\ renderLog = [k \in 1..n |->
                            [file |-> xyzs[k], out |-> FrameName(k - 1),
                             styled |-> TRUE, loaded |-> 1]]
          /\ \E m \in Modes :
             \E ws \in [1..n -> Widths] :
             \E hs \in [1..n -> Heights] :
                tgaFiles = [f \in {FrameName(k - 1) : k \in 1..n} |->
                    LET k == CHOOSE j \in 1..n : FrameName(j - 1) = f
                    IN  [Rendering(xyzs[k], ws[k], hs[k]) EXCEPT !.mode = m]]
    /\ SanIdle
    /\ PostIdle
    /\ ChartIdle
    /\ DrvIdle

MontageNext ==
    \/ Tga2PngBegin
    \/ Tga2PngIter
    \/ Tga2PngReturn
    \/ MontageNoImages
    \/ MontageOpen
    \/ MontageNormalize
    \/ MontageCanvas
    \/ MontagePaste
    \/ MontageSave

SpecMontage == MontageInit /\ [][MontageNext]_vars

(***************************************************************************)
(* Claims about the render script, the conversion and the montage          *)
(***************************************************************************)
\* i as "%02d" prints it, digit by digit: two digits below 100, three from 100
RenderIndexText(i) ==
    IF i < 100 THEN <<DigitChar(i \div 10), DigitChar(i % 10)>>
    ELSE <<DigitChar(i \div 100), DigitChar((i \div 10) % 10), DigitChar(i % 10)>>

FrameTga(i) == FramePrefix \o RenderIndexText(i) \o ExtTGA

\* C6: the script's loop renders one raster file per input filename, in list
\* order; the file for list position i is frame_<i, two digits>.tga whatever
\* number the filename holds; each frame is loaded, styled, rendered and
\* unloaded before the next one is loaded.
C6_OneFramePerFileInOrder ==
    /\ Len(loadedMols) <= 1
    /\ (pc = "vmd_loop" => loadedMols = <<>>)
    /\ \A k \in 1..Len(renderLog) :
           /\ renderLog[k].file = xyzs[k]
           /\ renderLog[k].out = FrameTga(k - 1)
           /\ renderLog[k].styled
           /\ renderLog[k].loaded = 1
    /\ DOMAIN tgaFiles = {FrameTga(k - 1) : k \in 1..Len(renderLog)}
    /\ \A k \in 1..Len(renderLog) : tgaFiles[FrameTga(k - 1)].px[<<0, 0>>][1] = xyzs[k]
    /\ (pc = "vmd_done" =>
           /\ Len(renderLog) = Len(xyzs)
           /\ Cardinality(DOMAIN tgaFiles) = Len(xyzs))

\* VMD has rendered three files whose embedded numbers run against the list
C6_Witness ==
    /\ pc = "vmd_done"
    /\ Len(xyzs) = 3
    /\ xyzs[1] = XyzName(2)
    /\ xyzs[3] = XyzName(0)
    /\ Len(renderLog) = 3

\* the x-offset of list position k: the widths before it
RECURSIVE WidthBefore(_, _)
WidthBefore(imgs, k) == IF k <= 1 THEN 0 ELSE WidthBefore(imgs, k - 1) + imgs[k - 1].w

\* the images createPNGmontage was given
MontageInputs == [k \in 1..Len(pngs) |-> pngFiles[pngs[k]]]

\* C7: the montage is as wide as the inputs together and as high as the
\* highest; image k lies at x = the widths before it and at y = (max_h - h)//2
\* if it is lower than max_h, at y = 0 otherwise; all else is transparent.
C7_MontageGeometry ==
    (pc = "montage_done") =>
        LET imgs == MontageInputs
            n == Len(imgs)
            H == CHOOSE h \in {imgs[k].h : k \in 1..n} :
                     \A k \in 1..n : imgs[k].h <= h
            W == WidthBefore(imgs, n + 1)
            X(k) == WidthBefore(imgs, k)
            Y(k) == IF imgs[k].h < H THEN (H - imgs[k].h) \div 2 ELSE 0
            Inside(p, k) == /\ p[1] >= X(k) /\ p[1] < X(k) + imgs[k].w
                            /\ p[2] >= Y(k) /\ p[2] < Y(k) + imgs[k].h
        IN  /\ n >= 1
            /\ montage.w = W
            /\ montage.h = H
            /\ DOMAIN montage.px = (0..(W - 1)) \X (0..(H - 1))
            /\ \A k \in 1..n : \A q \in DOMAIN imgs[k].px :
                   montage.px[<<X(k) + q[1], Y(k) + q[2]>>] = imgs[k].px[q]
            /\ \A p \in DOMAIN montage.px :
                   (\A k \in 1..n : ~Inside(p, k)) => montage.px[p] = Transparent

\* a montage of three images of heights 1, 4 and 2
C7_Witness ==
    /\ pc = "montage_done"
    /\ Len(pngs) = 3
    /\ pngFiles[pngs[1]].h = 1
    /\ pngFiles[pngs[2]].h = 4
    /\ pngFiles[pngs[3]].h = 2
    /\ pngFiles[pngs[1]].w = 2
    /\ montage.w > 0

\* C10: for every frame count the k-th tile of the montage shows the k-th
\* exported frame.
C10_TilesInFrameOrder ==
    (pc = "montage_done" /\ xyzs = [k \in 1..Len(xyzs) |-> XyzName(k - 1)]) =>
        \A k \in 1..Len(xyzs) :
            montage.px[<<(k - 1) * TileW, 0>>][1] = xyzs[k]

\* what does hold of the code: the tiles are in frame order up to 100 frames
TilesInFrameOrderUpTo100 ==
    (pc = "montage_done" /\ Len(xyzs) <= 100) =>
        \A k \in 1..Len(xyzs) :
            montage.px[<<(k - 1) * TileW, 0>>][1] = xyzs[k]

(***************************************************************************)
(* visneb_chart.py: bandPlotChart                                          *)
(***************************************************************************)
DecimalDigits == {"0", "1", "2", "3", "4", "5", "6", "7", "8", "9"}

DigitVal(c) == CHOOSE d \in 0..9 : DigitChar(d) = c

\* regex.match(f.name) for r"image_(\d{3})\.POSCAR": anchored at the start only
RegexMatches(n) ==
    /\ Len(n) >= Len(ImagePrefix) + 3 + Len(ExtPOSCAR)
    /\ StartsWith(n, ImagePrefix)
    /\ \A k \in 7..9 : n[k] \in DecimalDigits
    /\ SubSeq(n, 10, 9 + Len(ExtPOSCAR)) = ExtPOSCAR

\* int(m.group(1))
MatchedIndex(n) == 100 * DigitVal(n[7]) + 10 * DigitVal(n[8]) + DigitVal(n[9])

RECURSIVE InsertByIndex(_, _)
InsertByIndex(x, sq) ==
    IF sq = <<>> THEN <<x>>
    ELSE IF x[1] < Head(sq)[1] THEN <<x>> \o sq
    ELSE <<Head(sq)>> \o InsertByIndex(x, Tail(sq))

RECURSIVE SortByIndexFrom(_, _)
SortByIndexFrom(fs, k) ==
    IF k = 0 THEN <<>> ELSE InsertByIndex(fs[k], SortByIndexFrom(fs, k - 1))

\* a missing sort: the files stay in the order iterdir() gave them
SortByIndexMutant(fs) == fs

\* files.sort(key=lambda x: x[0]): ascending by index, equal keys keep their order
SortByIndex(fs) ==
    LET rev == [k \in 1..Len(fs) |-> fs[Len(fs) + 1 - k]]
    IN  SortByIndexFrom(rev, Len(rev))

RECURSIVE SeqMin(_)
SeqMin(es) == IF Len(es) = 1 THEN es[1] ELSE Min(es[1], SeqMin(Tail(es)))

\* energies -= energies.min()
Shifted(es) == [k \in 1..Len(es) |-> es[k] - SeqMin(es)]

EnergyValues == {0 - 12, 0 - 10, 3}

Orderings(S) ==
    {p \in [1..Cardinality(S) -> S] : \A a, b \in 1..Cardinality(S) : p[a] = p[b] => a = b}

\* the scratch directory holds style.vmd and any set of image_<index>.POSCAR
\* files, enumerated in any order; each structure has some energy
ChartInit ==
    /\ pc = "chart_scan"
    /\ err = "none"
    /\ traj = <<>>
    /\ nimages = 0
    /\ neb = <<>>
    /\ ex_i = 0
    /\ poscars = <<>>
    /\ xyzs = <<>>
    /\ \E idxs \in SUBSET (0..MaxIndex) :
          /\ imageFiles = [f \in {PoscarName(i) : i \in idxs} |->
                              [format |-> "vasp", atoms |-> MatchedIndex(f) + 1]]
          /\ energyOf \in [{i + 1 : i \in idxs} -> EnergyValues]
          /\ listing \in Orderings({PoscarName(i) : i \in idxs} \cup {StyleVmd})
    /\ ch_k = 0
    /\ ch_files = <<>>
    /\ indices = <<>>
    /\ energies = <<>>
    /\ energyCalls = <<>>
    /\ chart = <<>>
    /\ SanIdle
    /\ RenIdle
    /\ PostIdle
    /\ DrvIdle

\* lines 80-83: one iteration of "for f in tmpdir.iterdir()"
ChartScan ==
    /\ pc = "chart_scan"
    /\ ch_k < Len(listing)
    /\ LET f == listing[ch_k + 1]
       IN  ch_files' = IF RegexMatches(f)
                       THEN Append(ch_files, <<MatchedIndex(f), f>>)
                       ELSE ch_files
    /\ ch_k' = ch_k + 1
    /\ UNCHANGED <<pc, err, expVars, sanVars, renVars, postVars, drvVars,
                   listing, energyOf, indices, energies, energyCalls, chart>>

\* lines 85-86: raise RuntimeError("No image_XXX.POSCAR files found")
ChartNoFiles ==
    /\ pc = "chart_scan"
    /\ ch_k = Len(listing)
    /\ ch_files = <<>>
    /\ err' = "RuntimeError"
    /\ pc' = "failed"
    /\ UNCHANGED <<expVars, sanVars, renVars, postVars, drvVars, chartVars>>

\* lines 88-90: files.sort(...), indices = [], energies = []
ChartSort ==
    /\ pc = "chart_scan"
    /\ ch_k = Len(listing)
    /\ ch_files # <<>>
    /\ ch_files' = SortByIndex(ch_files)
    /\ indices' = <<>>
    /\ energies' = <<>>
    /\ ch_k' = 0
    /\ pc' = "chart_energy"
    /\ UNCHANGED <<err, expVars, sanVars, renVars, postVars, drvVars,
                   listing, energyOf, energyCalls, chart>>

\* lines 93-100: one iteration of "for i, path in files"
ChartEnergy ==
    /\ pc = "chart_energy"
    /\ ch_k < Len(ch_files)
    /\ LET i == ch_files[ch_k + 1][1]
           path == ch_files[ch_k + 1][2]
           atoms == imageFiles[path].atoms
           E == energyOf[atoms]
       IN  /\ indices' = Append(indices, i)
           /\ energies' = Append(energies, E)
           /\ energyCalls' = Append(energyCalls, path)
    /\ ch_k' = ch_k + 1
    /\ UNCHANGED <<pc, err, expVars, sanVars, renVars, postVars, drvVars,
                   listing, energyOf, ch_files, chart>>

\* line 106: energies -= energies.min()
ChartShift ==
    /\ pc = "chart_energy"
    /\ ch_k = Len(ch_files)
    /\ energies' = Shifted(energies)
    /\ pc' = "chart_plot"
    /\ UNCHANGED <<err, expVars, sanVars, renVars, postVars, drvVars,
                   listing, energyOf, ch_k, ch_files, indices, energyCalls, chart>>

\* lines 115-157: x = np.arange(len(energies)); the samples (x, energies) are
\* drawn and the figure is saved
ChartSave ==
    /\ pc = "chart_plot"
    /\ chart' = [k \in 1..Len(energies) |-> energies[k]]
    /\ pc' = "chart_done"
    /\ UNCHANGED <<err, expVars, sanVars, renVars, postVars, drvVars,
                   listing, energyOf, ch_k, ch_files, indices, energies, energyCalls>>

ChartNext ==
    \/ ChartScan
    \/ ChartNoFiles
    \/ ChartSort
    \/ ChartEnergy
    \/ ChartShift
    \/ ChartSave

SpecChart == ChartInit /\ [][ChartNext]_vars

(***************************************************************************)
(* Claims about bandPlotChart                                              *)
(***************************************************************************)
\* the raw energy of an exported file
RawEnergy(f) == energyOf[imageFiles[f].atoms]

\* the index i of the file named image_<i as three digits>.POSCAR
IndexOfPoscar(f) == CHOOSE i \in 0..MaxIndex : ThreeDigitName(i, ExtPOSCAR) = f

\* the POSCAR file with the k-th smallest index (k from 0)
KthSmallest(k) ==
    CHOOSE f \in DOMAIN imageFiles :
        Cardinality({g \in DOMAIN imageFiles :
                        IndexOfPoscar(g) < IndexOfPoscar(f)}) = k

\* C8: the backend is evaluated on the files in ascending index order, the
\* value at reaction coordinate k is the raw energy of the file with the
\* k-th smallest index minus the smallest raw energy, and the smallest
\* plotted value is 0.
C8_SortedAndShifted ==
    (pc = "chart_done") =>
        LET n == Cardinality(DOMAIN imageFiles)
            lowest == CHOOSE e \in {RawEnergy(f) : f \in DOMAIN imageFiles} :
                          \A f \in DOMAIN imageFiles : e <= RawEnergy(f)
        IN  /\ n >= 1
            /\ Len(energyCalls) = n
            /\ Len(chart) = n
            /\ \A k \in 0..(n - 1) :
                   /\ energyCalls[k + 1] = KthSmallest(k)
                   /\ chart[k + 1] = RawEnergy(KthSmallest(k)) - lowest
            /\ \E k \in 1..n : chart[k] = 0
            /\ \A k \in 1..n : chart[k] >= 0

\* three files listed as 002, 000, 001 (style.vmd between them), the lowest
\* energy on the last index
C8_Witness ==
    /\ pc = "chart_done"
    /\ Len(listing) = 4
    /\ listing[1] = PoscarName(2)
    /\ listing[2] = StyleVmd
    /\ listing[3] = PoscarName(0)
    /\ listing[4] = PoscarName(1)
    /\ chart = <<2, 15, 0>>

(***************************************************************************)
(* main.py: main, with utils.run and visneb_vmd.launchVMDforStyle          *)
(***************************************************************************)
StepOrder ==
    <<"export", "style", "sanitize", "script", "render", "convert", "montage",
      "chart">>

\* a run() that ignores the exit status
CheckCallRaisesMutant(status) == FALSE

\* subprocess.check_call raises CalledProcessError on a nonzero exit status
CheckCallRaises(status) == status # 0

\* the external conditions a step can fail on, besides an exit status
Raised == {"OSError", "ValueError", "RuntimeError"}

DriverInit ==
    /\ pc = "main"
    /\ err = "none"
    /\ traj \in SeqsUpTo(Structures, MaxTraj)
    /\ nimages \in (0 - 1)..(MaxTraj + 1)
    /\ neb = <<>>
    /\ ex_i = 0
    /\ poscars = <<>>
    /\ xyzs = <<>>
    /\ imageFiles = NoFiles
    /\ SanIdle
    /\ RenIdle
    /\ PostIdle
    /\ ChartIdle
    /\ DrvIdle

\* line 49: the scratch directory is created; line 54: extractMEPImages is called
DrvEnter ==
    /\ pc = "main"
    /\ tmpdir' = TRUE
    /\ started' = Append(started, "export")
    /\ pc' = "extract"
    /\ UNCHANGED <<err, expVars, sanVars, renVars, postVars, chartVars,
                   finished, exits, styleSaved, artifacts>>

\* line 54: extractMEPImages has returned
DrvExtracted ==
    /\ pc = "extract_done"
    /\ tmpdir
    /\ finished' = Append(finished, "export")
    /\ pc' = "step_style"
    /\ UNCHANGED <<err, expVars, sanVars, renVars, postVars, chartVars,
                   started, exits, styleSaved, tmpdir, artifacts>>

\* line 57: xyzs[0] of an empty list raises IndexError before the call
DrvNoFirstFile ==
    /\ pc = "step_style"
    /\ xyzs = <<>>
    /\ err' = "IndexError"
    /\ pc' = "unwind"
    /\ UNCHANGED <<expVars, sanVars, renVars, postVars, chartVars, drvVars>>

\* line 57, launchVMDforStyle lines 23-29: VMD runs on the first file and exits
\* with some status, having saved style.vmd or not
DrvLaunchVMD ==
    /\ pc = "step_style"
    /\ xyzs # <<>>
    /\ \E status \in {0, 1}, saved \in BOOLEAN :
          /\ exits' = Append(exits, [tool |-> "vmd", status |-> status])
          /\ styleSaved' = saved
          /\ started' = Append(started, "style")
          /\ IF CheckCallRaises(status)
             THEN /\ err' = "CalledProcessError"
                  /\ pc' = "unwind"
                  /\ finished' = finished
             ELSE IF ~saved
             THEN /\ err' = "RuntimeError"
                  /\ pc' = "unwind"
                  /\ finished' = finished
             ELSE /\ err' = err
                  /\ pc' = "step_sanitize"
                  /\ finished' = Append(finished, "style")
    /\ UNCHANGED <<expVars, sanVars, renVars, postVars, chartVars, tmpdir, artifacts>>

\* a step that runs no external command: it returns, or an exception leaves it
InProcessStep(at, name, next, produces) ==
    /\ pc = at
    /\ started' = Append(started, name)
    /\ \/ /\ finished' = Append(finished, name)
          /\ artifacts' = artifacts \cup produces
          /\ pc' = next
          /\ err' = err
       \/ /\ \E e \in Raised : err' = e
          /\ pc' = "unwind"
          /\ UNCHANGED <<finished, artifacts>>
    /\ UNCHANGED <<expVars, sanVars, renVars, postVars, chartVars, exits,
                   styleSaved, tmpdir>>

\* line 60: sanitizeStyleVMD(style)
DrvSanitize == InProcessStep("step_sanitize", "sanitize", "step_script", {})

\* line 63: createVMDRenderScript(tmpdir, xyzs)
DrvScript == InProcessStep("step_script", "script", "step_render", {})

\* line 66: runVMDScript(tmpdir, render)
DrvBatchRender ==
    /\ pc = "step_render"
    /\ \E status \in {0, 1} :
          /\ exits' = Append(exits, [tool |-> "vmd -dispdev text", status |-> status])
          /\ started' = Append(started, "render")
          /\ IF CheckCallRaises(status)
             THEN /\ err' = "CalledProcessError"
                  /\ pc' = "unwind"
                  /\ finished' = finished
             ELSE /\ err' = err
                  /\ pc' = "step_convert"
                  /\ finished' = Append(finished, "render")
    /\ UNCHANGED <<expVars, sanVars, renVars, postVars, chartVars, styleSaved,
                   tmpdir, artifacts>>

\* line 69: tga2png(tmpdir)
DrvConvert == InProcessStep("step_convert", "convert", "step_montage", {})

\* lines 72-74: createPNGmontage, then the montage is moved to the current directory
DrvMontage ==
    InProcessStep("step_montage", "montage", "step_chart", {"visualize.png"})

\* line 77: bandPlotChart(tmpdir, outname_chart, energy_func)
DrvChart == InProcessStep("step_chart", "chart", "end_with", {"chart.png"})

\* line 49: leaving the "with" block, normally or by an exception, removes
\* the scratch directory and all it holds
DrvExit ==
    /\ pc \in {"end_with", "unwind"}
    /\ tmpdir' = FALSE
    /\ imageFiles' = NoFiles
    /\ styleSaved' = FALSE
    /\ pc' = "exited"
    /\ UNCHANGED <<err, traj, nimages, neb, ex_i, poscars, xyzs, sanVars, renVars,
                   postVars, chartVars, started, finished, exits, artifacts>>

DriverNext ==
    \/ DrvEnter
    \/ ExtractBegin
    \/ ExtractIter
    \/ ExtractReturn
    \/ DrvExtracted
    \/ DrvNoFirstFile
    \/ DrvLaunchVMD
    \/ DrvSanitize
    \/ DrvScript
    \/ DrvBatchRender
    \/ DrvConvert
    \/ DrvMontage
    \/ DrvChart
    \/ DrvExit

SpecDriver == DriverInit /\ [][DriverNext]_vars

(***************************************************************************)
(* Claims about the driver                                                 *)
(***************************************************************************)
IsPrefix(a, b) == Len(a) <= Len(b) /\ SubSeq(b, 1, Len(a)) = a

DriverOrder ==
    /\ IsPrefix(started, StepOrder)
    /\ IsPrefix(finished, started)
    /\ Len(started) - Len(finished) <= 1
    /\ ("visualize.png" \in artifacts => Len(finished) >= 7)
    /\ ("chart.png" \in artifacts => Len(finished) = 8)

DriverFailureRaises ==
    /\ (\E k \in 1..Len(exits) : exits[k].status # 0) => err # "none"
    /\ (Len(started) > Len(finished) /\ pc \in {"unwind", "exited"}) => err # "none"
    /\ (Len(started) >= 2 /\ ~styleSaved /\ pc # "exited") => err # "none"

DriverDiscardsScratch ==
    (pc = "exited") => (~tmpdir /\ imageFiles = NoFiles)

DriverStopsOnFailure ==
    (err # "none") =>
        (started' = started /\ finished' = finished /\ artifacts' = artifacts)

\* C9: the steps run in the order export, style, sanitize, script, render,
\* convert, montage, chart, each after its predecessor returned; a nonzero
\* exit status, a missing style.vmd or a raised error stops the run: no step
\* starts and no artifact appears after it; when the run has ended the
\* scratch directory is gone.
C9_SequentialHardStop ==
    /\ [](DriverOrder /\ DriverFailureRaises /\ DriverDiscardsScratch)
    /\ [][DriverStopsOnFailure]_vars

\* the batch renderer exited nonzero after four steps had returned, and the
\* run has ended
C9_Witness ==
    /\ pc = "exited"
    /\ err = "CalledProcessError"
    /\ Len(exits) = 2
    /\ Len(finished) = 4
    /\ Len(started) = 5
    /\ artifacts = {}

=============================================================================
